---- MODULE Spec2Model ----
(***************************************************************************)
(* Legal Search Dashboard (src/p1.py): a Streamlit script that queries     *)
(* four legal search sites for a keyword and renders numbered results.     *)
(*                                                                         *)
(* Streamlit reruns main() from top to bottom on every user event; the     *)
(* session state persists between reruns.  One action of the model is one  *)
(* rerun of main(): a Search click, a Previous/Next click of one of the    *)
(* two paginated sources, or a checkbox toggle.  An exception that leaves  *)
(* main() ends the rerun at that statement; the assignments made to the    *)
(* session state before it persist.                                        *)
(*                                                                         *)
(* The sites, requests and Selenium are the environment: a request either  *)
(* succeeds or fails in one of the ways the routines distinguish, and      *)
(* driver.quit() is taken to return normally.  The keyword typed is one of *)
(* Keywords (never empty).  Three specifications share the definitions:    *)
(* Spec (the dashboard with failing requests), SpecHealthy (the dashboard  *)
(* when nothing fails) and SpecFetch (the four fetch routines called on    *)
(* drawn answer pages and failures).                                       *)
(***************************************************************************)
EXTENDS Integers, Sequences, FiniteSets, TLC

\* ------------------------------------------------------------------ bounds
\* Highest page number a Next click is allowed to reach in the model.
MaxPage == 3
\* Largest number of results a site puts on one page.
MaxResults == 2
\* Longest document the extraction routines are probed with.
MaxDoc == 2
\* Number of user events (clicks and toggles) followed in one session.
MaxEvents == 3
\* The same, for sessions in which nothing fails.
MaxHealthyEvents == 6

Keywords == {"a", "b"}
Sources == {"ik", "al", "cl", "ju"}

None == "None"

VARIABLES
    checked,          \* the four checkboxes: [Sources -> BOOLEAN]
    keyword,          \* st.session_state.keyword
    ik_page,          \* st.session_state.ik_page
    justia_page,      \* st.session_state.justia_page
    results_fetched,  \* st.session_state.results_fetched
    ik_results,       \* st.session_state.ik_results
    austlii_results,  \* st.session_state.austlii_results
    canlii_results,   \* st.session_state.canlii_results
    justia_results,   \* st.session_state.justia_results
    ik_counts,        \* st.session_state.ik_counts (dict page -> count)
    justia_counts,    \* st.session_state.justia_counts
    site,             \* the environment: what the sites hold for each keyword
    sessions,         \* number of browser sessions currently open
    run,              \* what the last rerun of main() did and displayed
    events,           \* number of user events so far
    probe             \* last direct call of a fetch routine on a drawn document

vars == <<checked, keyword, ik_page, justia_page, results_fetched, ik_results,
          austlii_results, canlii_results, justia_results, ik_counts,
          justia_counts, site, sessions, run, events, probe>>

\* ----------------------------------------------------------------- strings
\* str.startswith
StartsWith(s, p) == Len(s) >= Len(p) /\ SubSeq(s, 1, Len(p)) = p

\* the `in` operator on strings
Contains(s, sub) ==
    \E i \in 1..(Len(s) - Len(sub) + 1) : SubSeq(s, i, i + Len(sub) - 1) = sub

\* ------------------------------------------------------------ environment
\* A site holds, for a keyword, site[kw] results on its first page (a full page
\* of MaxResults, or one fewer) and one fewer on each later page, so pages
\* differ in length and eventually run out.
PageCount(kw, p) == IF site[kw] - (p - 1) > 0 THEN site[kw] - (p - 1) ELSE 0

\* Name of the i-th result of page p for keyword kw.
DocId(kw, p, i) == kw \o ToString(p) \o "-" \o ToString(i)

\* Query parameters of the request URLs.
NoParam == -1
JustiaStep == 10
IKUrls == [formInput : Keywords, pagenum : {NoParam} \cup (1..MaxPage)]
JustiaUrls == [q : Keywords, start : {(p - 1) * JustiaStep : p \in 1..(MaxPage + 1)}]

\* indiankanoon.org: pagenum is zero-based, absent means the first page.
\* Each element is one div.result_title: the href of its anchor (None when it
\* has no anchor with an href), the anchor text, the text of the sibling div.
IKSitePage(u) == IF u.pagenum = NoParam THEN 1 ELSE u.pagenum + 1
IKWeb ==
    [u \in IKUrls |->
        [i \in 1..PageCount(u.formInput, IKSitePage(u)) |->
            [href |-> "/doc/" \o DocId(u.formInput, IKSitePage(u), i),
             text |-> DocId(u.formInput, IKSitePage(u), i),
             details |-> ""]]]

\* austlii.edu.au: every anchor of the answer page, a navigation link first.
ALWeb ==
    [k \in Keywords |->
        <<[href |-> "/about.html", text |-> "About", next |-> "", meta |-> ""]>> \o
        [i \in 1..PageCount(k, 1) |->
            [href |-> "/cgi-bin/viewdoc/" \o DocId(k, 1, i),
             text |-> DocId(k, 1, i), next |-> "", meta |-> ""]]]

\* canlii.org: the a[data-result-uuid] anchors of the page the search leads to.
CLWeb ==
    [k \in Keywords |->
        [i \in 1..PageCount(k, 1) |->
            [href |-> "/en/doc/" \o DocId(k, 1, i), text |-> DocId(k, 1, i)]]]

\* justia.com: the a.gs-title anchors of the result page holding hits
\* start+1 .. start+10.
JustiaSitePage(u) == (u.start \div JustiaStep) + 1
JustiaWeb ==
    [u \in JustiaUrls |->
        [i \in 1..PageCount(u.q, JustiaSitePage(u)) |->
            [href |-> "https://law.justia.com/" \o DocId(u.q, JustiaSitePage(u), i),
             text |-> DocId(u.q, JustiaSitePage(u), i)]]]

\* --------------------------------------------------------- fetch routines
\* What a call of a fetch routine did: whether it raised to its caller,
\* whether its network call or browser automation failed, the list it returned, the st.error messages it emitted, and the browser
\* sessions it opened and quit.
Ret(raised, failed, value, errors, opened, quits) ==
    [raised |-> raised, failed |-> failed, value |-> value, errors |-> errors,
     opened |-> opened, quits |-> quits]

IKBase == "https://indiankanoon.org"
ALBase == "https://www.austlii.edu.au"
CLBase == "https://www.canlii.org"

\* Outcomes of requests.get: "ok" (status 200), "status" (another status),
\* "conn" (requests raises a RequestException).
NetOutcomes == {"ok", "status", "conn"}

IKUrl(kw, page) ==
    [formInput |-> kw, pagenum |-> IF page = 1 THEN NoParam ELSE page - 1]

IKLink(href) == IF ~StartsWith(href, "http") THEN IKBase \o href ELSE href

IKExtract(doc) ==
    LET found == SelectSeq(doc, LAMBDA e : e.href # None)
    IN  [i \in 1..Len(found) |->
            [title |-> found[i].text, link |-> IKLink(found[i].href),
             details |-> found[i].details]]

\* requests.get is not inside a try: an exception of it leaves the routine.
fetch_indian_kanoon_results(kw, page, net, web) ==
    IF net = "conn" THEN Ret(TRUE, TRUE, <<>>, <<>>, 0, 0)
    ELSE IF net = "status" THEN Ret(FALSE, TRUE, <<>>, <<>>, 0, 0)
    ELSE Ret(FALSE, FALSE, IKExtract(web[IKUrl(kw, page)]), <<>>, 0, 0)

ALUnavailable ==
    <<[title |-> "AustLII", link |-> "",
       details |-> "AustLII results are currently unavailable due to a connection error."]>>
ALNothing ==
    <<[title |-> "AustLII", link |-> "", details |-> "No results found on AustLII."]>>

ALLink(href) == IF StartsWith(href, "http") THEN href ELSE ALBase \o href

ALExtract(doc) ==
    LET found == SelectSeq(doc, LAMBDA e : Contains(e.href, "/cgi-bin/viewdoc/"))
        results == [i \in 1..Len(found) |->
            [title |-> IF found[i].text = "" THEN found[i].next ELSE found[i].text,
             link |-> ALLink(found[i].href),
             details |-> found[i].meta]]
    IN  IF results = <<>> THEN ALNothing ELSE results

\* raise_for_status turns a non-2xx status into a RequestException too.
fetch_austlii_search_results(kw, net, web) ==
    IF net # "ok"
    THEN Ret(FALSE, TRUE, ALUnavailable, <<"Error fetching AustLII results">>, 0, 0)
    ELSE Ret(FALSE, FALSE, ALExtract(web[kw]), <<>>, 0, 0)

\* Steps of the CanLII browser automation, in program order; a failure is
\* the step that raises ("none": no step does).
CanliiSteps ==
    <<"driver", "get", "hide_cookie", "wait_bar", "set_value", "wait_button",
      "click", "wait_results", "page_source">>
JustiaSteps == <<"driver", "get", "wait_results", "page_source">>

StepsOf(steps) == {steps[i] : i \in 1..Len(steps)}

\* The try block of both Selenium routines: driver is assigned once
\* webdriver.Edge() has returned, html once every step has passed.
TryBlock(fail_at, doc) ==
    [driver |-> IF fail_at = "driver" THEN None ELSE "session",
     html   |-> IF fail_at = "none" THEN doc ELSE <<>>,
     err    |-> IF fail_at = "none" THEN None ELSE fail_at]

\* except Exception: st.error(...)
ExceptBlock(t, message) == IF t.err # None THEN <<message>> ELSE <<>>

\* A driver.quit() placed at the end of the try block instead of in finally.
QuitAtEndOfTry(t) == IF t.err = None THEN 1 ELSE 0

\* finally: if driver is not None: driver.quit()
FinallyQuits(t) == IF t.driver # None THEN 1 ELSE 0

Opened(t) == IF t.driver # None THEN 1 ELSE 0

CLLink(href) == IF ~StartsWith(href, "http") THEN CLBase \o href ELSE href

CLExtract(html) ==
    [i \in 1..Len(html) |-> [title |-> html[i].text, link |-> CLLink(html[i].href)]]

fetch_canlii_search_results(kw, fail_at, web) ==
    LET t == TryBlock(fail_at, web[kw])
    IN  Ret(FALSE, t.err # None, CLExtract(t.html),
            ExceptBlock(t, "Error fetching CanLII results"),
            Opened(t), FinallyQuits(t))

JustiaUrl(kw, page) == [q |-> kw, start |-> (page - 1) * JustiaStep]

\* result.get("href", ""): the link is taken as it is, "" when there is none.
JustiaExtract(html) ==
    [i \in 1..Len(html) |->
        [title |-> html[i].text,
         link |-> IF html[i].href = None THEN "" ELSE html[i].href]]

fetch_justia_search_results(kw, page, fail_at, web) ==
    LET t == TryBlock(fail_at, web[JustiaUrl(kw, page)])
    IN  Ret(FALSE, t.err # None, JustiaExtract(t.html),
            ExceptBlock(t, "Error fetching Justia results"),
            Opened(t), FinallyQuits(t))

\* ------------------------------------------------------ formatting routines
\* A rendered Markdown block: its heading, its plain text line (if any) and
\* its numbered entries.
Block(heading, text, entries) ==
    [heading |-> heading, text |-> text, entries |-> entries]

\* enumerate(results, start): the i-th result gets number start + i - 1.
Numbered(results, start) ==
    [i \in 1..Len(results) |->
        [num |-> start + i - 1, title |-> results[i].title, link |-> results[i].link]]

format_results(results, source_name) ==
    IF results = <<>>
    THEN Block(source_name \o " Results:", "No results found.", <<>>)
    ELSE Block(source_name \o " Results:", "", Numbered(results, 1))

\* dict.get(page, 0)
Get(counts, page) == IF page \in DOMAIN counts THEN counts[page] ELSE 0

\* counts[page] = n
Put(counts, page, n) ==
    [q \in (DOMAIN counts) \cup {page} |-> IF q = page THEN n ELSE counts[q]]

RECURSIVE SumTo(_, _)
\* sum(counts.get(page, 0) for page in range(1, upto + 1))
SumTo(counts, upto) ==
    IF upto < 1 THEN 0 ELSE Get(counts, upto) + SumTo(counts, upto - 1)

\* The sum taken through the current page: range(1, current_page + 1).
CumulativeInclusive(counts, current_page) == SumTo(counts, current_page)

\* sum(... for page in range(1, current_page))
Cumulative(counts, current_page) == SumTo(counts, current_page - 1)

\* The text each paginated formatter returns and the counts it leaves in the
\* session state.  No count is recorded for an empty list.
format_indian_kanoon_results(results, current_page, counts) ==
    IF results = <<>>
    THEN [block |-> Block("", "No results found.", <<>>), counts |-> counts]
    ELSE LET stored == Put(counts, current_page, Len(results))
             start_num == Cumulative(stored, current_page) + 1
         IN  [block |-> Block("Indian Kanoon Results (Page " \o ToString(current_page) \o ")",
                              "", Numbered(results, start_num)),
              counts |-> stored]

format_justia_results(results, current_page, counts) ==
    IF results = <<>>
    THEN [block |-> Block("", "No results found.", <<>>), counts |-> counts]
    ELSE LET stored == Put(counts, current_page, Len(results))
             start_num == Cumulative(stored, current_page) + 1
         IN  [block |-> Block("Justia Results (Page " \o ToString(current_page) \o ")",
                              "", Numbered(results, start_num)),
              counts |-> stored]

\* ------------------------------------------------------------------ main()
\* The session state at the start of a rerun, with the rerun's own record:
\* the fetch calls made, the st.error messages, the blocks on the page, the
\* pagination buttons drawn, and whether an exception ended the rerun.
Start(event) ==
    [keyword |-> keyword, ik_page |-> ik_page, justia_page |-> justia_page,
     results_fetched |-> results_fetched, ik_results |-> ik_results,
     austlii_results |-> austlii_results, canlii_results |-> canlii_results,
     justia_results |-> justia_results, ik_counts |-> ik_counts,
     justia_counts |-> justia_counts, sessions |-> sessions,
     event |-> event, calls |-> <<>>, errors |-> <<>>,
     out |-> [x \in Sources |-> <<>>], buttons |-> {}, aborted |-> FALSE]

\* Bookkeeping of one fetch call that returned or raised r.
Called(S, src, kw, page, r) ==
    [S EXCEPT !.calls = Append(@, [src |-> src, kw |-> kw, page |-> page,
                                   raised |-> r.raised, failed |-> r.failed,
                                   errors |-> Len(r.errors)]),
              !.errors = @ \o r.errors,
              !.sessions = @ + r.opened - r.quits,
              !.aborted = r.raised]

\* Lines 261-265.
SearchIK(S, on, net) ==
    IF S.aborted THEN S
    ELSE IF on
    THEN LET S1 == [S EXCEPT !.ik_page = 1]
             r == fetch_indian_kanoon_results(S1.keyword, S1.ik_page, net, IKWeb)
             S2 == Called(S1, "ik", S1.keyword, S1.ik_page, r)
         IN  IF r.raised THEN S2 ELSE [S2 EXCEPT !.ik_results = r.value]
    ELSE [S EXCEPT !.ik_results = <<>>]

\* Lines 267-270.
SearchAL(S, on, net) ==
    IF S.aborted THEN S
    ELSE IF on
    THEN LET r == fetch_austlii_search_results(S.keyword, net, ALWeb)
             S2 == Called(S, "al", S.keyword, 1, r)
         IN  IF r.raised THEN S2 ELSE [S2 EXCEPT !.austlii_results = r.value]
    ELSE [S EXCEPT !.austlii_results = <<>>]

\* Lines 272-275.
SearchCL(S, on, fail_at) ==
    IF S.aborted THEN S
    ELSE IF on
    THEN LET r == fetch_canlii_search_results(S.keyword, fail_at, CLWeb)
             S2 == Called(S, "cl", S.keyword, 1, r)
         IN  IF r.raised THEN S2 ELSE [S2 EXCEPT !.canlii_results = r.value]
    ELSE [S EXCEPT !.canlii_results = <<>>]

\* Lines 277-281.
SearchJustia(S, on, fail_at) ==
    IF S.aborted THEN S
    ELSE IF on
    THEN LET S1 == [S EXCEPT !.justia_page = 1]
             r == fetch_justia_search_results(S1.keyword, S1.justia_page, fail_at, JustiaWeb)
             S2 == Called(S1, "ju", S1.keyword, S1.justia_page, r)
         IN  IF r.raised THEN S2 ELSE [S2 EXCEPT !.justia_results = r.value]
    ELSE [S EXCEPT !.justia_results = <<>>]

\* Lines 283-287.
SearchDone(S) ==
    IF S.aborted THEN S
    ELSE [S EXCEPT !.results_fetched = TRUE, !.ik_counts = <<>>, !.justia_counts = <<>>]

\* Lines 258-287: the body of `if st.button("Search")`.
SearchHandler(S, kw_in, on, oc) ==
    SearchDone(
      SearchJustia(
        SearchCL(
          SearchAL(
            SearchIK([S EXCEPT !.keyword = kw_in], on["ik"], oc.ik),
            on["al"], oc.al),
          on["cl"], oc.cl),
        on["ju"], oc.ju))

\* Lines 297-298 and 302-303: fetch the page the counter now names and put
\* its text in the container under the block already shown.
PageIK(S, page, net) ==
    LET S1 == [S EXCEPT !.ik_page = page]
        r == fetch_indian_kanoon_results(S1.keyword, S1.ik_page, net, IKWeb)
        S2 == Called(S1, "ik", S1.keyword, S1.ik_page, r)
        S3 == [S2 EXCEPT !.ik_results = r.value]
        f == format_indian_kanoon_results(S3.ik_results, S3.ik_page, S3.ik_counts)
    IN  IF r.raised THEN S2
        ELSE [S3 EXCEPT !.ik_counts = f.counts, !.out["ik"] = Append(@, f.block)]

\* The Previous branch without its `st.session_state.ik_page > 1` test.
ShowIKUnguarded(S, on, click, net) ==
    IF S.aborted \/ ~on THEN S
    ELSE LET f == format_indian_kanoon_results(S.ik_results, S.ik_page, S.ik_counts)
             S1 == [S EXCEPT !.ik_counts = f.counts, !.out["ik"] = <<f.block>>,
                             !.buttons = @ \cup {"prev_ik"}]
             S2 == IF click = "prev_ik"
                   THEN PageIK(S1, S1.ik_page - 1, net) ELSE S1
             S3 == IF S2.aborted THEN S2 ELSE [S2 EXCEPT !.buttons = @ \cup {"next_ik"}]
         IN  IF ~S3.aborted /\ click = "next_ik"
             THEN PageIK(S3, S3.ik_page + 1, net) ELSE S3

\* Lines 291-304.
ShowIK(S, on, click, net) ==
    IF S.aborted \/ ~on THEN S
    ELSE LET f == format_indian_kanoon_results(S.ik_results, S.ik_page, S.ik_counts)
             S1 == [S EXCEPT !.ik_counts = f.counts, !.out["ik"] = <<f.block>>,
                             !.buttons = @ \cup {"prev_ik"}]
             S2 == IF click = "prev_ik" /\ S1.ik_page > 1
                   THEN PageIK(S1, S1.ik_page - 1, net) ELSE S1
             S3 == IF S2.aborted THEN S2 ELSE [S2 EXCEPT !.buttons = @ \cup {"next_ik"}]
         IN  IF ~S3.aborted /\ click = "next_ik"
             THEN PageIK(S3, S3.ik_page + 1, net) ELSE S3

\* The AustLII block rendered without the `if search_al` test.
ShowALAlways(S, on) ==
    IF S.aborted THEN S
    ELSE [S EXCEPT !.out["al"] = <<format_results(S.austlii_results, "AustLII")>>]

\* Lines 306-308.
ShowAL(S, on) ==
    IF S.aborted \/ ~on THEN S
    ELSE [S EXCEPT !.out["al"] = <<format_results(S.austlii_results, "AustLII")>>]

\* Lines 310-312.
ShowCL(S, on) ==
    IF S.aborted \/ ~on THEN S
    ELSE [S EXCEPT !.out["cl"] = <<format_results(S.canlii_results, "CanLII")>>]

\* Lines 321-322 and 326-327: the new text replaces the container's content.
PageJustia(S, page, fail_at) ==
    LET S1 == [S EXCEPT !.justia_page = page]
        r == fetch_justia_search_results(S1.keyword, S1.justia_page, fail_at, JustiaWeb)
        S2 == Called(S1, "ju", S1.keyword, S1.justia_page, r)
        S3 == [S2 EXCEPT !.justia_results = r.value]
        f == format_justia_results(S3.justia_results, S3.justia_page, S3.justia_counts)
    IN  IF r.raised THEN S2
        ELSE [S3 EXCEPT !.justia_counts = f.counts, !.out["ju"] = <<f.block>>]

\* Lines 314-327.
ShowJustia(S, on, click, fail_at) ==
    IF S.aborted \/ ~on THEN S
    ELSE LET f == format_justia_results(S.justia_results, S.justia_page, S.justia_counts)
             S1 == [S EXCEPT !.justia_counts = f.counts, !.out["ju"] = <<f.block>>,
                             !.buttons = @ \cup {"prev_justia"}]
             S2 == IF click = "prev_justia" /\ S1.justia_page > 1
                   THEN PageJustia(S1, S1.justia_page - 1, fail_at) ELSE S1
             S3 == IF S2.aborted THEN S2 ELSE [S2 EXCEPT !.buttons = @ \cup {"next_justia"}]
         IN  IF ~S3.aborted /\ click = "next_justia"
             THEN PageJustia(S3, S3.justia_page + 1, fail_at) ELSE S3

\* Lines 290-327: the body of `if st.session_state.results_fetched`.
Display(S, on, click, oc) ==
    IF S.aborted \/ ~S.results_fetched THEN S
    ELSE ShowJustia(ShowCL(ShowAL(ShowIK(S, on["ik"], click, oc.ik), on["al"]), on["cl"]),
                    on["ju"], click, oc.ju)

\* Lines 234-327: one rerun of main() with the checkboxes as in `on`.
main(event, on, kw_in, oc) ==
    LET S == Start(event)
    IN  Display(IF event = "search" THEN SearchHandler(S, kw_in, on, oc) ELSE S,
                on, event, oc)

\* The session state and the page a rerun leaves behind.
Commit(S) ==
    /\ keyword' = S.keyword
    /\ ik_page' = S.ik_page
    /\ justia_page' = S.justia_page
    /\ results_fetched' = S.results_fetched
    /\ ik_results' = S.ik_results
    /\ austlii_results' = S.austlii_results
    /\ canlii_results' = S.canlii_results
    /\ justia_results' = S.justia_results
    /\ ik_counts' = S.ik_counts
    /\ justia_counts' = S.justia_counts
    /\ sessions' = S.sessions
    /\ events' = events + 1
    /\ run' = [event |-> S.event, calls |-> S.calls, errors |-> S.errors,
               out |-> S.out, buttons |-> S.buttons, aborted |-> S.aborted]

\* ---------------------------------------------------------------- actions
\* Failures drawn for the dashboard's calls.  requests.get: a non-200 status
\* or a connection error (for AustLII both are the same RequestException).
\* Browser automation: a wait that times out once the driver has started
\* (every failing step of the automation is drawn in SpecFetch).
IKOutcomes == NetOutcomes
ALOutcomes == {"ok", "conn"}
BrowserOutcomes == {"none", "wait_results"}

AllFine == [ik |-> "ok", al |-> "ok", cl |-> "none", ju |-> "none"]

\* Lines 239-252: first load of the page.
Init ==
    /\ checked = [x \in Sources |-> TRUE]
    /\ keyword = ""
    /\ ik_page = 1
    /\ justia_page = 1
    /\ results_fetched = FALSE
    /\ ik_results = <<>>
    /\ austlii_results = <<>>
    /\ canlii_results = <<>>
    /\ justia_results = <<>>
    /\ ik_counts = <<>>
    /\ justia_counts = <<>>
    /\ site \in [Keywords -> {MaxResults - 1, MaxResults}]
    /\ sessions = 0
    /\ events = 0
    /\ run = [event |-> "load", calls |-> <<>>, errors |-> <<>>,
              out |-> [x \in Sources |-> <<>>], buttons |-> {}, aborted |-> FALSE]
    /\ probe = [fn |-> "none"]

\* One rerun of main() on a user event.
Rerun(event, on, kw_in, oc) ==
    /\ checked' = on
    /\ Commit(main(event, on, kw_in, oc))
    /\ UNCHANGED <<site, probe>>

\* The user types a keyword and clicks Search.
Search ==
    /\ events < MaxEvents
    /\ \E kw_in \in Keywords :
       \E ik \in (IF checked["ik"] THEN IKOutcomes ELSE {"ok"}) :
       \E al \in (IF checked["al"] THEN ALOutcomes ELSE {"ok"}) :
       \E cl \in (IF checked["cl"] THEN BrowserOutcomes ELSE {"none"}) :
       \E ju \in (IF checked["ju"] THEN BrowserOutcomes ELSE {"none"}) :
           Rerun("search", checked, kw_in, [ik |-> ik, al |-> al, cl |-> cl, ju |-> ju])

\* The user clicks a pagination button of Indian Kanoon that is on the page.
ClickIK ==
    \E btn \in {"prev_ik", "next_ik"} :
    \E net \in (IF btn = "prev_ik" /\ ik_page = 1 THEN {"ok"} ELSE IKOutcomes) :
        /\ events < MaxEvents
        /\ btn \in run.buttons
        /\ btn = "next_ik" => ik_page < MaxPage
        /\ Rerun(btn, checked, keyword, [AllFine EXCEPT !.ik = net])

\* The user clicks a pagination button of Justia that is on the page.
ClickJustia ==
    \E btn \in {"prev_justia", "next_justia"} :
    \E fail_at \in (IF btn = "prev_justia" /\ justia_page = 1 THEN {"none"}
                    ELSE BrowserOutcomes) :
        /\ events < MaxEvents
        /\ btn \in run.buttons
        /\ btn = "next_justia" => justia_page < MaxPage
        /\ Rerun(btn, checked, keyword, [AllFine EXCEPT !.ju = fail_at])

\* The user ticks or unticks one checkbox.
Toggle ==
    /\ events < MaxEvents
    /\ \E x \in Sources : Rerun("toggle", [checked EXCEPT ![x] = ~@], keyword, AllFine)

Next == Search \/ ClickIK \/ ClickJustia \/ Toggle

Spec == Init /\ [][Next]_vars

\* The same dashboard on a day when every request and every browser run
\* succeeds, followed for MaxHealthyEvents user events.
SearchHealthy ==
    /\ events < MaxHealthyEvents
    /\ \E kw_in \in Keywords : Rerun("search", checked, kw_in, AllFine)

ClickIKHealthy ==
    \E btn \in {"prev_ik", "next_ik"} :
        /\ events < MaxHealthyEvents
        /\ btn \in run.buttons
        /\ btn = "next_ik" => ik_page < MaxPage
        /\ Rerun(btn, checked, keyword, AllFine)

ClickJustiaHealthy ==
    \E btn \in {"prev_justia", "next_justia"} :
        /\ events < MaxHealthyEvents
        /\ btn \in run.buttons
        /\ btn = "next_justia" => justia_page < MaxPage
        /\ Rerun(btn, checked, keyword, AllFine)

ToggleHealthy ==
    /\ events < MaxHealthyEvents
    /\ \E x \in Sources : Rerun("toggle", [checked EXCEPT ![x] = ~@], keyword, AllFine)

NextHealthy == SearchHealthy \/ ClickIKHealthy \/ ClickJustiaHealthy \/ ToggleHealthy

SpecHealthy == Init /\ [][NextHealthy]_vars

\* ------------------------------------------- the fetch routines on their own
\* Each routine called directly on a drawn answer page and a drawn outcome of
\* its network call or browser automation.
IKElems ==
    {[href |-> "/doc/1/", text |-> "Case 1", details |-> "cited"],
     [href |-> "https://indiankanoon.org/doc/2/", text |-> "Case 2", details |-> ""],
     [href |-> None, text |-> "", details |-> ""]}
ALElems ==
    {[href |-> "/cgi-bin/viewdoc/au/cases/1.html", text |-> "Case 1", next |-> "", meta |-> "HCA"],
     [href |-> "https://www.austlii.edu.au/cgi-bin/viewdoc/au/cases/2.html",
      text |-> "", next |-> "Case 2", meta |-> ""],
     [href |-> "/about.html", text |-> "About", next |-> "", meta |-> ""]}
CLElems ==
    {[href |-> "/en/ca/scc/doc/1", text |-> "Case 1"],
     [href |-> "https://www.canlii.org/en/ca/scc/doc/2", text |-> "Case 2"]}
JustiaElems ==
    {[href |-> "https://law.justia.com/cases/1", text |-> "Case 1"],
     [href |-> "/cases/2", text |-> "Case 2"],
     [href |-> None, text |-> "Case 3"]}

Docs(elems) == UNION {[1..n -> elems] : n \in 0..MaxDoc}

Probe(fn, outcome, doc, r) == [fn |-> fn, outcome |-> outcome, doc |-> doc, ret |-> r]

\* The sessions a call leaves open stay open; nothing else of the dashboard moves.
Returned(r) ==
    /\ sessions' = sessions + r.opened - r.quits
    /\ UNCHANGED <<checked, keyword, ik_page, justia_page, results_fetched,
                   ik_results, austlii_results, canlii_results, justia_results,
                   ik_counts, justia_counts, site, run, events>>

ProbeIK ==
    \E kw \in Keywords, page \in 1..MaxPage, net \in NetOutcomes, doc \in Docs(IKElems) :
        LET r == fetch_indian_kanoon_results(kw, page, net, [u \in IKUrls |-> doc])
        IN  /\ probe' = Probe("ik", net, doc, r)
            /\ Returned(r)

ProbeAL ==
    \E kw \in Keywords, net \in NetOutcomes, doc \in Docs(ALElems) :
        LET r == fetch_austlii_search_results(kw, net, [k \in Keywords |-> doc])
        IN  /\ probe' = Probe("al", net, doc, r)
            /\ Returned(r)

ProbeCL ==
    \E kw \in Keywords, fail_at \in {"none"} \cup StepsOf(CanliiSteps),
       doc \in Docs(CLElems) :
        LET r == fetch_canlii_search_results(kw, fail_at, [k \in Keywords |-> doc])
        IN  /\ probe' = Probe("cl", fail_at, doc, r)
            /\ Returned(r)

ProbeJustia ==
    \E kw \in Keywords, page \in 1..MaxPage,
       fail_at \in {"none"} \cup StepsOf(JustiaSteps), doc \in Docs(JustiaElems) :
        LET r == fetch_justia_search_results(kw, page, fail_at, [u \in JustiaUrls |-> doc])
        IN  /\ probe' = Probe("ju", fail_at, doc, r)
            /\ Returned(r)

NextFetch == ProbeIK \/ ProbeAL \/ ProbeCL \/ ProbeJustia

SpecFetch == Init /\ [][NextFetch]_vars

\* ================================================================== claims

\* C3: every fetch routine handles its own failure: when its network call or
\* browser automation fails it returns normally (it does not raise), what it
\* returns is the empty list or a single placeholder record, and it has
\* emitted an st.error message.
C3_FailureHandledLocally ==
    (probe.fn # "none" /\ probe.ret.failed) =>
        /\ ~probe.ret.raised
        /\ probe.ret.value = <<>> \/ probe.ret.value = ALUnavailable
        /\ probe.ret.errors # <<>>

\* C6: a browser session opened by fetch_canlii_search_results or
\* fetch_justia_search_results is quit exactly once before the call returns,
\* whichever step fails, so no session is open between calls.
C6_SessionsReleased ==
    /\ sessions = 0
    /\ probe.fn \in {"cl", "ju"} =>
         /\ probe.ret.quits = probe.ret.opened
         /\ probe.ret.opened <= 1

\* C6 witness: a CanLII call whose click failed after the driver had started,
\* with its session quit.
C6_Witness ==
    /\ probe.fn = "cl" /\ probe.outcome = "click"
    /\ probe.ret.opened = 1 /\ probe.ret.quits = 1 /\ sessions = 0

\* C7: every record a fetch routine returns has a link that begins with
\* "http", on success and on failure paths alike.
C7_LinksAbsolute ==
    probe.fn # "none" =>
        \A i \in 1..Len(probe.ret.value) : StartsWith(probe.ret.value[i].link, "http")

\* The stored result list of each source.
ResultsOf ==
    [x \in Sources |->
        CASE x = "ik" -> ik_results
          [] x = "al" -> austlii_results
          [] x = "cl" -> canlii_results
          [] x = "ju" -> justia_results]

\* The fetch calls the last rerun made for source x.
CallsFor(x) == SelectSeq(run.calls, LAMBDA c : c.src = x)

\* Heading of a block of a paginated source for page p.
PagedHeading(x, p) ==
    (IF x = "ik" THEN "Indian Kanoon" ELSE "Justia")
        \o " Results (Page " \o ToString(p) \o ")"

NoResultsShown(x) ==
    /\ run.out[x] # <<>>
    /\ run.out[x][Len(run.out[x])].text = "No results found."

RECURSIVE SiteTotal(_, _)
\* Number of results the site holds on pages 1..upto for keyword kw.
SiteTotal(kw, upto) ==
    IF upto < 1 THEN 0 ELSE PageCount(kw, upto) + SiteTotal(kw, upto - 1)

\* C1: continuous numbering: a block of Indian Kanoon or Justia showing page p
\* of the current keyword is numbered consecutively from 1 plus the number of
\* results on pages 1..p-1 of that keyword (page 2 starts at n1 + 1).
C1_ContinuousNumbering ==
    \A x \in {"ik", "ju"} : \A k \in 1..Len(run.out[x]) : \A p \in 1..MaxPage :
        LET b == run.out[x][k]
        IN  (b.heading = PagedHeading(x, p) /\ b.entries # <<>>) =>
                \A i \in 1..Len(b.entries) :
                    b.entries[i].num = SiteTotal(keyword, p - 1) + i

\* C2: when the fetch of one source fails during a Search click, every other
\* ticked source is still fetched and rendered and results_fetched is set.
C2_FailureDoesNotStopOthers ==
    run.event = "search" =>
        \A x \in Sources :
            (\E i \in 1..Len(run.calls) : run.calls[i].src = x /\ run.calls[i].failed) =>
                /\ results_fetched
                /\ \A y \in Sources \ {x} :
                       checked[y] => CallsFor(y) # <<>> /\ run.out[y] # <<>>

C5_FirstPageStartsAtOne ==
    /\ \A x \in {"ik", "ju"} : \A k \in 1..Len(run.out[x]) :
         LET b == run.out[x][k]
         IN  b.heading = PagedHeading(x, 1) =>
                 \A i \in 1..Len(b.entries) : b.entries[i].num = i
    /\ \A x \in {"al", "cl"} : \A k \in 1..Len(run.out[x]) :
         \A i \in 1..Len(run.out[x][k].entries) : run.out[x][k].entries[i].num = i

\* C5 witness: Indian Kanoon is back on page 1 after a Previous click and the
\* page shows its results, and AustLII shows numbered results too.
C5_Witness ==
    /\ run.event = "prev_ik" /\ ik_page = 1 /\ Len(run.out["ik"]) = 2
    /\ run.out["ik"][2].heading = PagedHeading("ik", 1)
    /\ run.out["ik"][2].entries # <<>>
    /\ run.out["al"] # <<>> /\ run.out["al"][1].entries # <<>>

C9_StoredResultsMatchPage ==
    /\ run.out["ik"] # <<>> =>
         ik_results \in {<<>>, IKExtract(IKWeb[IKUrl(keyword, ik_page)])}
    /\ run.out["ju"] # <<>> =>
         justia_results \in {<<>>, JustiaExtract(JustiaWeb[JustiaUrl(keyword, justia_page)])}

\* C10: the page counters never drop below 1, and a Previous click on page 1
\* fetches nothing and leaves the page counter and the stored list as they were.
C10_PreviousOnFirstPage ==
    /\ [](ik_page >= 1 /\ justia_page >= 1)
    /\ [][/\ (run'.event = "prev_ik" /\ ik_page = 1) =>
               run'.calls = <<>> /\ ik_page' = 1 /\ ik_results' = ik_results
          /\ (run'.event = "prev_justia" /\ justia_page = 1) =>
               run'.calls = <<>> /\ justia_page' = 1 /\ justia_results' = justia_results
         ]_vars

\* C10 witness: Previous was clicked with Indian Kanoon on page 1 showing results.
C10_Witness ==
    /\ run.event = "prev_ik" /\ run.calls = <<>> /\ ik_page = 1
    /\ ik_results # <<>> /\ Len(run.out["ik"]) = 1

====
